---- MODULE Spec2Model ----
(***************************************************************************)
(* A model of the cf-ghproxy worker (src/worker.js): the path resolver,    *)
(* the cache strategy selector, the cache key builder, the retrying        *)
(* fetcher and the request handler with the edge cache it reads and        *)
(* writes.                                                                 *)
(*                                                                         *)
(* A JavaScript string is a sequence of one-character strings, so that     *)
(* split, join, includes, the regular expressions and the URL operations   *)
(* are computed on characters, as the code computes them.                  *)
(***************************************************************************)
EXTENDS Integers, Sequences, FiniteSets, TLC

\* ------------------------------------------------------------ configuration

SWR_SECONDS == 86400
MAX_RETRIES == 2
RETRY_DELAY_MS == 500

GITHUB_HOSTS ==
    << <<"g","i","t","h","u","b",".","c","o","m">>,
       <<"r","a","w",".","g","i","t","h","u","b","u","s","e","r","c","o","n","t","e","n","t",".","c","o","m">>,
       <<"g","i","s","t",".","g","i","t","h","u","b",".","c","o","m">>,
       <<"g","i","s","t",".","g","i","t","h","u","b","u","s","e","r","c","o","n","t","e","n","t",".","c","o","m">> >>

\* ------------------------------------------------------- string primitives

Range(f) == {f[i] : i \in DOMAIN f}

\* s[i], or "" past either end (what a regular expression sees there).
At(s, i) == IF i \in 1..Len(s) THEN s[i] ELSE ""

IsDigit(c) == c \in {"0", "1", "2", "3", "4", "5", "6", "7", "8", "9"}

\* String.prototype.includes
Includes(s, sub) ==
    \E i \in 0..(Len(s) - Len(sub)) : SubSeq(s, i + 1, i + Len(sub)) = sub

StartsWith(s, p) == Len(s) >= Len(p) /\ SubSeq(s, 1, Len(p)) = p

\* The first index of character c in s, 0 when there is none.
IndexOf(s, c) ==
    IF \E i \in 1..Len(s) : s[i] = c
    THEN CHOOSE i \in 1..Len(s) : s[i] = c /\ \A j \in 1..(i - 1) : s[j] # c
    ELSE 0

\* String.prototype.split with a one-character separator.
RECURSIVE Split(_, _)
Split(s, c) ==
    LET i == IndexOf(s, c)
    IN  IF i = 0 THEN <<s>>
        ELSE <<SubSeq(s, 1, i - 1)>> \o Split(SubSeq(s, i + 1, Len(s)), c)

NonEmpty(p) == p # <<>>

\* Array.prototype.join
RECURSIVE Join(_, _)
Join(parts, sep) ==
    IF parts = <<>> THEN <<>>
    ELSE IF Len(parts) = 1 THEN parts[1]
    ELSE parts[1] \o sep \o Join(Tail(parts), sep)

\* String(n) of a natural number.
RECURSIVE NumToString(_)
NumToString(n) ==
    LET d == <<"0", "1", "2", "3", "4", "5", "6", "7", "8", "9">>[(n % 10) + 1]
    IN  IF n < 10 THEN <<d>> ELSE NumToString(n \div 10) \o <<d>>

\* String.prototype.padStart(2, '0')
PadStart2(s) == IF Len(s) < 2 THEN <<"0">> \o s ELSE s

\* ---------------------------------------------------------- getCacheVersion

\* `now` is the UTC calendar date the clock shows: [y, m, d], m in 1..12.
getUTCMonth(now) == now.m - 1

getCacheVersion(now) ==
    LET year  == now.y
        month == PadStart2(NumToString(getUTCMonth(now) + 1))
        day   == PadStart2(NumToString(now.d))
    IN  NumToString(year) \o month \o day

\* -------------------------------------------------------------- extractETag

StripETag_FirstMatchOnly(etag) ==
    LET weak == <<"W", "/", "\"">>
        q    == IndexOf(etag, "\"")
    IN  IF StartsWith(etag, weak) THEN SubSeq(etag, 4, Len(etag))
        ELSE IF q = 0 THEN etag
        ELSE SubSeq(etag, 1, q - 1) \o SubSeq(etag, q + 1, Len(etag))

\* etag.replace(/^W\/"|"/g, ''): the weak prefix W/" at the start and every
\* double quote are removed.
StripETag(etag) ==
    LET weak == <<"W", "/", "\"">>
        rest == IF StartsWith(etag, weak) THEN SubSeq(etag, 4, Len(etag)) ELSE etag
    IN  SelectSeq(rest, LAMBDA c : c # "\"")

\* The header value <<>> stands for an absent (or empty) ETag header, and the
\* result <<>> for null.
extractETag(etag) ==
    IF etag = <<>> THEN <<>>
    ELSE LET n == StripETag(etag) IN SubSeq(n, 1, IF Len(n) < 32 THEN Len(n) ELSE 32)

\* --------------------------------------------------------- getCacheStrategy

\* The ends (exclusive) of the non-empty digit runs that start at position a.
DigitRuns(s, a) ==
    {e \in (a + 1)..(Len(s) + 1) : \A k \in a..(e - 1) : IsDigit(s[k])}

\* /\/v?\d+\.\d+(\.\d+)?\//.test(s)
TestVersionSegment(s) ==
    \E i \in 1..Len(s) :
        /\ s[i] = "/"
        /\ \E a \in {i + 1} \cup (IF At(s, i + 1) = "v" THEN {i + 2} ELSE {}) :
             \E b \in DigitRuns(s, a) :
                /\ At(s, b) = "."
                /\ \E c \in DigitRuns(s, b + 1) :
                     \/ At(s, c) = "/"
                     \/ /\ At(s, c) = "."
                        /\ \E d \in DigitRuns(s, c + 1) : At(s, d) = "/"

\* /\/tags?\//.test(s)
TestTags(s) ==
    \/ Includes(s, <<"/","t","a","g","/">>)
    \/ Includes(s, <<"/","t","a","g","s","/">>)

\* /\/releases\/download\/v?\d+/.test(s)
TestReleaseDownload(s) ==
    LET lit == <<"/","r","e","l","e","a","s","e","s","/","d","o","w","n","l","o","a","d","/">>
    IN  \E i \in 0..(Len(s) - Len(lit)) :
            /\ SubSeq(s, i + 1, i + Len(lit)) = lit
            /\ LET j == i + Len(lit) + 1
               IN  \/ IsDigit(At(s, j))
                   \/ At(s, j) = "v" /\ IsDigit(At(s, j + 1))

IsDynamicPath(pathname) ==
    \/ Includes(pathname, <<"/","l","a","t","e","s","t","/">>)
    \/ Includes(pathname, <<"/","n","i","g","h","t","l","y","/">>)
    \/ Includes(pathname, <<"/","m","a","s","t","e","r","/">>)
    \/ Includes(pathname, <<"/","m","a","i","n","/">>)

IsVersionedPath(pathname) ==
    \/ TestVersionSegment(pathname)
    \/ TestTags(pathname)
    \/ TestReleaseDownload(pathname)

DynamicStrategy ==
    [edgeTTL |-> 3600, browserTTL |-> 300, useETag |-> TRUE, description |-> "dynamic"]

VersionedStrategy ==
    [edgeTTL |-> 2592000, browserTTL |-> 86400, useETag |-> FALSE, description |-> "versioned"]

DefaultStrategy ==
    [edgeTTL |-> 86400, browserTTL |-> 3600, useETag |-> TRUE, description |-> "default"]

getCacheStrategy_VersionedFirst(pathname) ==
    IF IsVersionedPath(pathname) THEN VersionedStrategy
    ELSE IF IsDynamicPath(pathname) THEN DynamicStrategy
    ELSE DefaultStrategy

getCacheStrategy(pathname) ==
    IF IsDynamicPath(pathname) THEN DynamicStrategy
    ELSE IF IsVersionedPath(pathname) THEN VersionedStrategy
    ELSE DefaultStrategy

\* ---------------------------------------------------------- parseGitHubPath

\* The result null is the record with valid = FALSE.
NullInfo == [valid |-> FALSE, host |-> <<>>, path |-> <<>>, fullUrl |-> <<>>]

GitHubInfo(githubHost, githubPath) ==
    [valid |-> TRUE, host |-> githubHost, path |-> githubPath,
     fullUrl |-> <<"h","t","t","p","s",":","/","/">> \o githubHost \o githubPath]

parseGitHubPath_NoFilter(pathname) ==
    LET parts == Split(pathname, "/")
    IN  IF Len(parts) = 0 THEN NullInfo
        ELSE IF parts[1] \in Range(GITHUB_HOSTS)
             THEN GitHubInfo(parts[1], <<"/">> \o Join(Tail(parts), <<"/">>))
             ELSE GitHubInfo(GITHUB_HOSTS[1], pathname)

parseGitHubPath_AnyHost(pathname) ==
    LET parts == SelectSeq(Split(pathname, "/"), NonEmpty)
    IN  IF Len(parts) = 0 THEN NullInfo
        ELSE IF Includes(parts[1], <<".">>)
             THEN GitHubInfo(parts[1], <<"/">> \o Join(Tail(parts), <<"/">>))
             ELSE GitHubInfo(GITHUB_HOSTS[1], pathname)

parseGitHubPath(pathname) ==
    LET parts == SelectSeq(Split(pathname, "/"), NonEmpty)
    IN  IF Len(parts) = 0 THEN NullInfo
        ELSE IF parts[1] \in Range(GITHUB_HOSTS)
             THEN GitHubInfo(parts[1], <<"/">> \o Join(Tail(parts), <<"/">>))
             ELSE GitHubInfo(GITHUB_HOSTS[1], pathname)

\* ------------------------------------------------------- URL, searchParams

\* new URL(url) of an https URL: its origin, pathname and search. The
\* authority ends at the first "/" or "?"; an empty path is "/"; a search of
\* "?" alone is empty.
URL(url) ==
    LET rest  == SubSeq(url, 9, Len(url))
        ends  == {i \in 1..Len(rest) : rest[i] \in {"/", "?"}}
        e     == IF ends = {} THEN Len(rest) + 1
                 ELSE CHOOSE i \in ends : \A j \in ends : i <= j
        tail  == SubSeq(rest, e, Len(rest))
        q     == IndexOf(tail, "?")
        path  == IF q = 0 THEN tail ELSE SubSeq(tail, 1, q - 1)
    IN  [origin   |-> SubSeq(url, 1, 8) \o SubSeq(rest, 1, e - 1),
         pathname |-> IF path = <<>> THEN <<"/">> ELSE path,
         search   |-> IF q = 0 \/ q = Len(tail) THEN <<>>
                      ELSE SubSeq(tail, q, Len(tail))]

\* The characters the application/x-www-form-urlencoded serializer leaves as
\* they are; it writes a space as "+" and any other character as %XX.
FormSafe(c) ==
    c \in {"a","b","c","d","e","f","g","h","i","j","k","l","m","n","o","p","q",
           "r","s","t","u","v","w","x","y","z","A","B","C","D","E","F","G","H",
           "I","J","K","L","M","N","O","P","Q","R","S","T","U","V","W","X","Y",
           "Z","0","1","2","3","4","5","6","7","8","9","*","-",".","_"}

\* The %XX of the other characters that occur in the model's strings.
PercentCodes ==
    { <<"/", <<"%","2","F">> >>, <<"\"", <<"%","2","2">> >>,
      <<"&", <<"%","2","6">> >>, <<"=", <<"%","3","D">> >>,
      <<"?", <<"%","3","F">> >>, <<"@", <<"%","4","0">> >>,
      <<"%", <<"%","2","5">> >>, <<"+", <<"%","2","B">> >>,
      <<",", <<"%","2","C">> >>, <<":", <<"%","3","A">> >> }

FormEncodeChar(c) ==
    IF FormSafe(c) THEN <<c>>
    ELSE IF c = " " THEN <<"+">>
    ELSE (CHOOSE pc \in PercentCodes : pc[1] = c)[2]

RECURSIVE FormEncode(_)
FormEncode(s) ==
    IF s = <<>> THEN <<>> ELSE FormEncodeChar(Head(s)) \o FormEncode(Tail(s))

RECURSIVE FormDecode(_)
FormDecode(s) ==
    IF s = <<>> THEN <<>>
    ELSE IF Head(s) = "+" THEN <<" ">> \o FormDecode(Tail(s))
    ELSE IF /\ Head(s) = "%"
            /\ Len(s) >= 3
            /\ \E pc \in PercentCodes : pc[2] = SubSeq(s, 1, 3)
         THEN <<(CHOOSE pc \in PercentCodes : pc[2] = SubSeq(s, 1, 3))[1]>>
              \o FormDecode(SubSeq(s, 4, Len(s)))
    ELSE <<Head(s)>> \o FormDecode(Tail(s))

\* url.searchParams: the list of <<name, value>> pairs parsed from the search.
SearchParams(search) ==
    IF search = <<>> THEN <<>>
    ELSE LET pieces == SelectSeq(Split(Tail(search), "&"), NonEmpty)
         IN  [k \in 1..Len(pieces) |->
                LET p == pieces[k]
                    i == IndexOf(p, "=")
                IN  IF i = 0 THEN <<FormDecode(p), <<>>>>
                    ELSE <<FormDecode(SubSeq(p, 1, i - 1)),
                           FormDecode(SubSeq(p, i + 1, Len(p)))>>]

\* URLSearchParams.set: the first pair of that name gets the value and the
\* other pairs of that name are removed; without one, the pair is appended.
SearchParamsSet(list, name, value) ==
    IF \E k \in 1..Len(list) : list[k][1] = name
    THEN LET first == CHOOSE k \in 1..Len(list) :
                         /\ list[k][1] = name
                         /\ \A j \in 1..(k - 1) : list[j][1] # name
         IN  SubSeq(list, 1, first - 1) \o << <<name, value>> >>
             \o SelectSeq(SubSeq(list, first + 1, Len(list)),
                          LAMBDA e : e[1] # name)
    ELSE Append(list, <<name, value>>)

\* The query the URL gets once its searchParams were changed.
SerializeParams(list) ==
    Join([k \in 1..Len(list) |->
            FormEncode(list[k][1]) \o <<"=">> \o FormEncode(list[k][2])],
         <<"&">>)

\* cacheUrl.toString() of a URL whose searchParams were set to `list`.
Href(u, list) ==
    u.origin \o u.pathname
    \o (IF list = <<>> THEN <<>> ELSE <<"?">> \o SerializeParams(list))

\* -------------------------------------------------------- getOptimalCacheKey

\* The encoding tag of an Accept-Encoding value: "br", "gzip" or none (<<>>).
EncodingTag(acceptEncoding) ==
    IF acceptEncoding = <<>> THEN <<>>
    ELSE IF Includes(acceptEncoding, <<"b","r">>) THEN <<"b","r">>
    ELSE IF Includes(acceptEncoding, <<"g","z","i","p">>) THEN <<"g","z","i","p">>
    ELSE <<>>

\* version <<>> is null (or the empty string): the date-based version is used.
\* `now` is the date the clock shows when the key is built.
getOptimalCacheKey(url, acceptEncoding, version, now) ==
    LET cacheUrl     == URL(url)
        cacheVersion == IF version # <<>> THEN version ELSE getCacheVersion(now)
        withV        == SearchParamsSet(SearchParams(cacheUrl.search),
                                        <<"_","_","v">>, cacheVersion)
        enc          == EncodingTag(acceptEncoding)
        withEnc      == IF enc # <<>>
                        THEN SearchParamsSet(withV, <<"_","_","e","n","c">>, enc)
                        ELSE withV
    IN  Href(cacheUrl, withEnc)

\* --------------------------------------------------------------- responses

\* A Headers object: a function from lower-case header names to values; a
\* name outside its domain is an absent header.
NoHeaders == <<>>

HeaderGet(headers, name) == IF name \in DOMAIN headers THEN headers[name] ELSE <<>>

HeaderSet(headers, name, value) == (name :> value) @@ headers

\* A body: a literal text of the worker, or the body the upstream sent for
\* `from` when its ETag header was `tag`.
NoBody == [text |-> "", from |-> <<>>, tag |-> <<>>]

NoResponse == [status |-> 0, headers |-> NoHeaders, body |-> NoBody]

InvalidPathResponse ==
    [status  |-> 400,
     headers |-> ("content-type" :> "text/plain"),
     body    |-> [text |-> "Invalid path. Usage: /[github.com]/user/repo/path/to/file",
                  from |-> <<>>, tag |-> <<>>]]

PreflightResponse ==
    [status  |-> 204,
     headers |-> ("access-control-allow-origin" :> "*")
                 @@ ("access-control-allow-methods" :> "GET,HEAD,OPTIONS")
                 @@ ("access-control-allow-headers" :> "*")
                 @@ ("access-control-max-age" :> "86400"),
     body    |-> NoBody]

MethodNotAllowedResponse ==
    [status  |-> 405,
     headers |-> NoHeaders,
     body    |-> [text |-> "Method Not Allowed", from |-> <<>>, tag |-> <<>>]]

\* `public, max-age=${..}, s-maxage=${..}, stale-while-revalidate=${SWR_SECONDS}`
CacheControlValue(maxAge, sMaxAge) ==
    <<"p","u","b","l","i","c",","," ","m","a","x","-","a","g","e","=">>
    \o NumToString(maxAge)
    \o <<","," ","s","-","m","a","x","a","g","e","=">>
    \o NumToString(sMaxAge)
    \o <<","," ","s","t","a","l","e","-","w","h","i","l","e","-","r","e","v","a","l","i","d","a","t","e","=">>
    \o NumToString(SWR_SECONDS)

CacheControl_Swapped(cacheStrategy) ==
    CacheControlValue(cacheStrategy.edgeTTL, cacheStrategy.browserTTL)

\* The Cache-Control value of a response under a strategy.
CacheControl(cacheStrategy) ==
    CacheControlValue(cacheStrategy.browserTTL, cacheStrategy.edgeTTL)

\* The elapsed time `${Date.now() - startTime}ms` is not modelled: the header
\* is present with a value that stands for any number of milliseconds.
ResponseTime == "ms"

HitResponse_KeepStored(hit, cacheStrategy) ==
    [status  |-> hit.status,
     headers |-> HeaderSet(hit.headers, "x-response-time", ResponseTime),
     body    |-> hit.body]

\* The response of a cache hit: the cached headers with three of them set.
HitResponse(hit, cacheStrategy) ==
    [status  |-> hit.status,
     headers |-> HeaderSet(HeaderSet(HeaderSet(hit.headers,
                     "x-cache-status", "HIT"),
                     "x-cache-strategy", cacheStrategy.description),
                     "x-response-time", ResponseTime),
     body    |-> hit.body]

\* The headers of the assembled response: the upstream headers with the
\* cache, CORS, debug, security and connection headers set.
MissHeaders(upstreamHeaders, cacheStrategy, cacheVersion, upstreamUrl) ==
    LET acceptEncoding == <<"A","c","c","e","p","t","-","E","n","c","o","d","i","n","g">>
        vary == IF "vary" \in DOMAIN upstreamHeaders
                THEN acceptEncoding \o <<",", " ">> \o upstreamHeaders["vary"]
                ELSE acceptEncoding
    IN  ("cache-control" :> CacheControl(cacheStrategy))
        @@ ("vary" :> vary)
        @@ ("access-control-allow-origin" :> "*")
        @@ ("access-control-expose-headers" :> "*")
        @@ ("x-mirror-version" :> cacheVersion)
        @@ ("x-cache-strategy" :> cacheStrategy.description)
        @@ ("x-github-target" :> upstreamUrl)
        @@ ("x-cache-status" :> "MISS")
        @@ ("x-response-time" :> ResponseTime)
        @@ ("x-content-type-options" :> "nosniff")
        @@ ("x-frame-options" :> "SAMEORIGIN")
        @@ ("connection" :> "keep-alive")
        @@ ("keep-alive" :> "timeout=60, max=1000")
        @@ upstreamHeaders

\* ------------------------------------------------------------ fetchWithRetry

\* What the upstream does with one attempt: it answers with a status and
\* possibly an ETag header, or the attempt ends in a network error (fetch
\* rejects with a TypeError) or in the abort of the 30 s timeout (fetch rejects
\* with an AbortError).
UpstreamAnswer(status, etag) ==
    [kind |-> "response", status |-> status, etag |-> etag, error |-> ""]

UpstreamError == [kind |-> "error", status |-> 0, etag |-> <<>>, error |-> "TypeError"]

UpstreamTimeout == [kind |-> "error", status |-> 0, etag |-> <<>>, error |-> "AbortError"]

\* response.ok
Ok(status) == status >= 200 /\ status <= 299

fetchWithRetry_RetryClientErrors(i, o, retries) ==
    IF o.kind = "response" /\ Ok(o.status)
    THEN [then |-> "return", delay |-> 0]
    ELSE IF i < retries
         THEN [then |-> "retry", delay |-> RETRY_DELAY_MS * (i + 1)]
         ELSE IF o.kind = "response"
              THEN [then |-> "return", delay |-> 0]
              ELSE [then |-> "throw", delay |-> 0]

fetchWithRetry_ThrowWhenExhausted(i, o, retries) ==
    IF o.kind = "response" /\ (Ok(o.status) \/ (o.status >= 400 /\ o.status < 500))
    THEN [then |-> "return", delay |-> 0]
    ELSE IF i < retries
         THEN [then |-> "retry", delay |-> RETRY_DELAY_MS * (i + 1)]
         ELSE [then |-> "throw", delay |-> 0]

fetchWithRetry_NeverGivesUp(i, o, retries) ==
    IF o.kind = "response" /\ (Ok(o.status) \/ (o.status >= 400 /\ o.status < 500))
    THEN [then |-> "return", delay |-> 0]
    ELSE [then |-> "retry", delay |-> RETRY_DELAY_MS * (i + 1)]

fetchWithRetry_FixedDelay(i, o, retries) ==
    IF o.kind = "response" /\ (Ok(o.status) \/ (o.status >= 400 /\ o.status < 500))
    THEN [then |-> "return", delay |-> 0]
    ELSE IF i < retries
         THEN [then |-> "retry", delay |-> RETRY_DELAY_MS]
         ELSE IF o.kind = "response"
              THEN [then |-> "return", delay |-> 0]
              ELSE [then |-> "throw", delay |-> 0]

fetchWithRetry_NoRetryOnError(i, o, retries) ==
    IF o.kind = "response"
    THEN IF Ok(o.status) \/ (o.status >= 400 /\ o.status < 500)
         THEN [then |-> "return", delay |-> 0]
         ELSE IF i < retries
         THEN [then |-> "retry", delay |-> RETRY_DELAY_MS * (i + 1)]
         ELSE [then |-> "return", delay |-> 0]
    ELSE [then |-> "throw", delay |-> 0]

\* One turn of the loop, attempt i (from 0) having ended with outcome o: the
\* response is returned, or the delay is taken and attempt i + 1 follows, or
\* the error is thrown.
fetchWithRetry(i, o, retries) ==
    IF o.kind = "response"
    THEN IF Ok(o.status) \/ (o.status >= 400 /\ o.status < 500)
         THEN [then |-> "return", delay |-> 0]
         ELSE IF i < retries
         THEN [then |-> "retry", delay |-> RETRY_DELAY_MS * (i + 1)]
         ELSE [then |-> "return", delay |-> 0]
    ELSE IF i < retries
         THEN [then |-> "retry", delay |-> RETRY_DELAY_MS * (i + 1)]
         ELSE [then |-> "throw", delay |-> 0]

\* ------------------------------------------------------------------- bounds

\* Requests received in one behaviour.
MaxRequests == 2

\* Dates the clock goes through.
MaxDay == 2

\* Segments of a generated path.
MaxSegs == 3

\* Characters of a generated ETag header.
MaxTagLen == 3

\* -------------------------------------------------------------------- state

VARIABLES
    today,      \* the clock: the index in Dates of the current UTC date
    cache,      \* caches.default: cache key |-> the entry stored under it
    req,        \* slot |-> the request the slot handles and where it stands
    tasks,      \* the promises given to ctx.waitUntil that have not settled
    started,    \* the number of requests received
    probe       \* the calls of the cache key builder made on their own

vars == <<today, cache, req, tasks, started, probe>>

\* The UTC dates of the clock, in order; a later one follows an earlier one
\* after any number of days.
Dates ==
    << [y |-> 2024, m |-> 1,  d |-> 11],
       [y |-> 2024, m |-> 11, d |-> 1],
       [y |-> 2024, m |-> 12, d |-> 31],
       [y |-> 2025, m |-> 1,  d |-> 1],
       [y |-> 2025, m |-> 10, d |-> 10] >>

Now == Dates[today]

Slots == {1, 2}

\* The origin the worker is deployed at.
ProxyOrigin == <<"h","t","t","p","s",":","/","/","p",".","d","e","v">>

NoStrategy == [edgeTTL |-> 0, browserTTL |-> 0, useETag |-> FALSE, description |-> ""]

NoEntry == [resp |-> NoResponse, by |-> [url |-> <<>>, acceptEncoding |-> <<>>, day |-> 0]]

IdleRequest ==
    [pc              |-> "idle",
     n               |-> 0,          \* its number among the requests received
     method          |-> "",
     url             |-> <<>>,       \* request.url
     headers         |-> NoHeaders,  \* request.headers
     day             |-> 0,          \* the clock when it was received
     githubInfo      |-> NullInfo,
     cacheStrategy   |-> NoStrategy,
     acceptEncoding  |-> <<>>,
     initialCacheKey |-> <<>>,
     upstreamUrl     |-> <<>>,
     isRange         |-> FALSE,
     hinted          |-> FALSE,      \* the early hint was dispatched
     lookedUp        |-> FALSE,      \* cache.match was called
     prior           |-> FALSE,      \* it is a GET without Range, and when it
                                     \* was received the cache held an entry an
                                     \* identical request of the same date wrote
     i               |-> 0,          \* the loop variable of fetchWithRetry
     attempts        |-> 0,          \* upstream fetches made
     seen            |-> <<>>,       \* what each of them ended with, in order
     error           |-> "",         \* the error fetchWithRetry threw
     delays          |-> <<>>,       \* the retry delays taken, in ms
     fetched         |-> <<>>,       \* the URL given to the upstream fetch
     passHeaders     |-> NoHeaders,
     upstreamStatus  |-> 0,
     cacheVersion    |-> <<>>,
     finalCacheKey   |-> <<>>,
     stored          |-> FALSE,      \* cache.put was scheduled
     resp            |-> NoResponse]

\* ------------------------------------------------------ the fetch handler

ForwardedHeaders ==
    {"range", "if-range", "if-none-match", "if-modified-since",
     "user-agent", "accept", "accept-encoding"}

PassHeaders_ForwardAll(headers) ==
    [h \in {x \in DOMAIN headers : headers[x] # <<>>} |-> headers[h]]

\* The headers passed upstream: the forwarded names that have a value.
PassHeaders(headers) ==
    [h \in {x \in ForwardedHeaders : HeaderGet(headers, x) # <<>>} |-> headers[h]]

\* The three early returns of the handler, in the order the code tests them:
\* "" when the request goes on.
EarlyReturn(githubInfo, method) ==
    IF ~githubInfo.valid THEN "path"
    ELSE IF method = "OPTIONS" THEN "preflight"
    ELSE IF method # "GET" /\ method # "HEAD" THEN "method"
    ELSE ""

EarlyResponse(which) ==
    CASE which = "path"      -> InvalidPathResponse
      [] which = "preflight" -> PreflightResponse
      [] which = "method"    -> MethodNotAllowedResponse

\* const upstreamUrl = githubInfo.fullUrl + url.search
UpstreamUrl(githubInfo, url) == githubInfo.fullUrl \o url.search

VersionETag_IgnoreFlag(cacheStrategy, upstreamHeaders) ==
    extractETag(HeaderGet(upstreamHeaders, "etag"))

\* The normalized ETag the final key and X-Mirror-Version use, <<>> when the
\* date-based version stays.
VersionETag(cacheStrategy, upstreamHeaders) ==
    IF cacheStrategy.useETag
    THEN extractETag(HeaderGet(upstreamHeaders, "etag"))
    ELSE <<>>

FinalCacheKey_AlwaysLookupKey(q, etag, now) == q.initialCacheKey

\* finalCacheKey of request q: the lookup key, or the key rebuilt with the ETag.
FinalCacheKey(q, etag, now) ==
    IF etag # <<>>
    THEN getOptimalCacheKey(q.url, q.acceptEncoding, etag, now)
    ELSE q.initialCacheKey

Out_ServerErrorAsBadGateway(body, status, headers) ==
    [status |-> IF status >= 500 THEN 502 ELSE status, headers |-> headers, body |-> body]

\* new Response(upstreamResp.body, { status: upstreamResp.status, headers })
Out(body, status, headers) == [status |-> status, headers |-> headers, body |-> body]

ShouldStore_AnySuccess(method, status, isRange) ==
    method = "GET" /\ Ok(status) /\ ~isRange

ShouldStore_IgnoreRange(method, status, isRange) ==
    method = "GET" /\ status = 200

\* Whether the response is written to the cache.
ShouldStore(method, status, isRange) ==
    method = "GET" /\ status = 200 /\ ~isRange

\* A request arrives at an idle slot: the handler runs to its first await, or
\* to an early return.
Receive(r, method, pathname, search, headers) ==
    /\ req[r].pc \in {"idle", "done", "failed"}
    /\ started < MaxRequests
    /\ started' = started + 1
    /\ LET requestUrl == ProxyOrigin \o pathname \o search
           url        == URL(requestUrl)
           githubInfo == parseGitHubPath(url.pathname)
           early      == EarlyReturn(githubInfo, method)
           q0 == [IdleRequest EXCEPT !.n = started + 1, !.method = method,
                                     !.url = requestUrl, !.headers = headers,
                                     !.day = today]
       IN  IF early # ""
           THEN /\ req' = [req EXCEPT ![r] =
                            [q0 EXCEPT !.pc = "done", !.resp = EarlyResponse(early)]]
                /\ UNCHANGED tasks
           ELSE LET cacheStrategy   == getCacheStrategy(githubInfo.path)
                    acceptEncoding  == HeaderGet(headers, "accept-encoding")
                    initialCacheKey == getOptimalCacheKey(requestUrl, acceptEncoding,
                                                          <<>>, Now)
                    isRange         == HeaderGet(headers, "range") # <<>>
                    isGet           == method = "GET"
                    prior == \E k \in DOMAIN cache :
                                cache[k].by = [url |-> requestUrl,
                                               acceptEncoding |-> acceptEncoding,
                                               day |-> today]
                IN  /\ req' = [req EXCEPT ![r] =
                                [q0 EXCEPT !.pc = IF isGet /\ ~isRange
                                                  THEN "match" ELSE "fetch",
                                           !.githubInfo = githubInfo,
                                           !.cacheStrategy = cacheStrategy,
                                           !.acceptEncoding = acceptEncoding,
                                           !.initialCacheKey = initialCacheKey,
                                           !.upstreamUrl = UpstreamUrl(githubInfo, url),
                                           !.isRange = isRange,
                                           !.prior = isGet /\ ~isRange /\ prior,
                                           !.hinted = isGet]]
                    /\ tasks' = IF isGet
                                THEN tasks \cup {[kind |-> "hint", n |-> started + 1,
                                                  key |-> <<>>, entry |-> NoEntry]}
                                ELSE tasks
    /\ UNCHANGED <<today, cache, probe>>

\* await cache.match(cacheKey): a hit is returned with three headers set,
\* a miss goes on to the upstream.
CacheMatch(r) ==
    /\ req[r].pc = "match"
    /\ LET q     == req[r]
           key   == q.initialCacheKey
           q1    == [q EXCEPT !.lookedUp = TRUE]
       IN  req' = [req EXCEPT ![r] =
                     IF key \in DOMAIN cache
                     THEN [q1 EXCEPT !.pc = "done",
                                     !.resp = HitResponse(cache[key].resp,
                                                          q.cacheStrategy)]
                     ELSE [q1 EXCEPT !.pc = "fetch"]]
    /\ UNCHANGED <<today, cache, tasks, started, probe>>

\* One upstream attempt of fetchWithRetry ends with outcome o. When the loop
\* returns a response, the handler assembles the response, schedules the cache
\* write and returns, all before its next await.
FetchAttempt(r, o) ==
    /\ req[r].pc = "fetch"
    /\ LET q    == [req[r] EXCEPT !.attempts = @ + 1,
                                  !.seen = Append(@, o),
                                  !.fetched = req[r].upstreamUrl,
                                  !.passHeaders = PassHeaders(req[r].headers)]
           step == fetchWithRetry(q.i, o, MAX_RETRIES)
       IN  CASE step.then = "retry" ->
                  /\ req' = [req EXCEPT ![r] =
                               [q EXCEPT !.i = @ + 1,
                                         !.delays = Append(@, step.delay)]]
                  /\ UNCHANGED tasks
             [] step.then = "throw" ->
                  /\ req' = [req EXCEPT ![r] = [q EXCEPT !.pc = "failed",
                                                          !.error = o.error]]
                  /\ UNCHANGED tasks
             [] step.then = "return" ->
                  LET upstreamHeaders == IF o.etag # <<>> THEN ("etag" :> o.etag)
                                         ELSE NoHeaders
                      etag          == VersionETag(q.cacheStrategy, upstreamHeaders)
                      cacheVersion  == IF etag # <<>> THEN etag
                                       ELSE getCacheVersion(Now)
                      finalCacheKey == FinalCacheKey(q, etag, Now)
                      out == Out([text |-> "", from |-> q.upstreamUrl, tag |-> o.etag],
                                 o.status,
                                 MissHeaders(upstreamHeaders, q.cacheStrategy,
                                             cacheVersion, q.upstreamUrl))
                      store == ShouldStore(q.method, o.status, q.isRange)
                  IN  /\ req' = [req EXCEPT ![r] =
                                   [q EXCEPT !.pc = "done",
                                             !.upstreamStatus = o.status,
                                             !.cacheVersion = cacheVersion,
                                             !.finalCacheKey = finalCacheKey,
                                             !.stored = store,
                                             !.resp = out]]
                      /\ tasks' = IF store
                                  THEN tasks \cup
                                       {[kind |-> "put", n |-> q.n, key |-> finalCacheKey,
                                         entry |-> [resp |-> out,
                                                    by |-> [url |-> q.url,
                                                            acceptEncoding |-> q.acceptEncoding,
                                                            day |-> q.day]]]}
                                  ELSE tasks
    /\ UNCHANGED <<today, cache, started, probe>>

CachePut_KeepFirst(t) ==
    /\ t \in tasks
    /\ t.kind = "put"
    /\ cache' = cache @@ (t.key :> t.entry)
    /\ tasks' = tasks \ {t}
    /\ UNCHANGED <<today, req, started, probe>>

\* A scheduled cache.put completes: the entry replaces what the key held.
CachePut(t) ==
    /\ t \in tasks
    /\ t.kind = "put"
    /\ cache' = (t.key :> t.entry) @@ cache
    /\ tasks' = tasks \ {t}
    /\ UNCHANGED <<today, req, started, probe>>

CachePutFail_Awaited(t) ==
    /\ t \in tasks
    /\ t.kind = "put"
    /\ tasks' = tasks \ {t}
    /\ req' = [r \in Slots |->
                 IF req[r].n = t.n
                 THEN [req[r] EXCEPT !.pc = "failed", !.resp = NoResponse]
                 ELSE req[r]]
    /\ UNCHANGED <<today, cache, started, probe>>

\* A scheduled cache.put rejects; ctx.waitUntil drops the rejection.
CachePutFail(t) ==
    /\ t \in tasks
    /\ t.kind = "put"
    /\ tasks' = tasks \ {t}
    /\ UNCHANGED <<today, cache, req, started, probe>>

\* The early-hint fetch settles; its result and its failure are both dropped.
EarlyHintSettle(t) ==
    /\ t \in tasks
    /\ t.kind = "hint"
    /\ tasks' = tasks \ {t}
    /\ UNCHANGED <<today, cache, req, started, probe>>

\* UTC midnight passes.
Tick ==
    /\ today < MaxDay
    /\ today' = today + 1
    /\ UNCHANGED <<cache, req, tasks, started, probe>>

\* ------------------------------------------------------------------- inputs

Methods == {"GET", "HEAD", "OPTIONS", "POST"}

RootPath == <<"/">>

DynamicPath == <<"/","p","k","g","/","r","a","w","/","m","a","i","n","/","f","i","l","e">>

ScenarioPath ==
    <<"/","t","o","r","v","a","l","d","s","/","l","i","n","u","x","/","a","r","c","h","i","v","e","/","r","e","f","s","/","t","a","g","s","/","v","6",".","6",".","t","a","r",".","g","z">>

DefaultPath == <<"/","p","k","g","/","b","l","o","b","/","x">>

HostPath ==
    <<"/","g","i","t","h","u","b",".","c","o","m","/","p","k","g","/","b","l","o","b","/","x">>

ReleasePath ==
    <<"/","p","k","g","/","r","e","l","e","a","s","e","s","/","d","o","w","n","l","o","a","d","/","v","1",".","2",".","3","/","f","i","l","e",".","t","a","r",".","g","z">>

\* The paths of the requests of Spec: one without segments, one dynamic, two
\* versioned and one default.
SeqPaths == {RootPath, DynamicPath, ScenarioPath, ReleasePath, DefaultPath}

RangeValues == {<<>>, <<"b","y","t","e","s","=","0","-","9">>}

AcceptEncodings == {<<>>, <<"g","z","i","p">>}

\* request.headers of a request with these Range and Accept-Encoding values.
InHeaders(range, acceptEncoding) ==
    LET all == ("range" :> range) @@ ("accept-encoding" :> acceptEncoding)
    IN  [h \in {x \in DOMAIN all : all[x] # <<>>} |-> all[h]]

\* What an upstream attempt can end with.
Outcomes ==
    {UpstreamAnswer(200, <<>>),
     UpstreamAnswer(200, <<"\"","e","1","\"">>),
     UpstreamAnswer(404, <<>>),
     UpstreamAnswer(500, <<>>),
     UpstreamError}

\* ----------------------------------------------------------- specifications

Init ==
    /\ today = 1
    /\ cache = <<>>
    /\ req = [r \in Slots |-> IdleRequest]
    /\ tasks = {}
    /\ started = 0
    /\ probe = <<>>

\* Requests handled one after the other by one slot. The early-hint fetches
\* stay pending: nothing reads their result.
Next ==
    \/ \E m \in Methods, p \in SeqPaths, rg \in RangeValues, ae \in AcceptEncodings :
          Receive(1, m, p, <<>>, InHeaders(rg, ae))
    \/ CacheMatch(1)
    \/ \E o \in Outcomes : FetchAttempt(1, o)
    \/ \E t \in tasks : CachePut(t)
    \/ \E t \in tasks : CachePutFail(t)
    \/ Tick

Spec == Init /\ [][Next]_vars

\* The segments the generated paths are made of; the empty one gives the
\* repeated and the trailing slashes.
Segments ==
    { <<>>,
      <<"g","i","t","h","u","b",".","c","o","m">>,
      <<"r","a","w",".","g","i","t","h","u","b","u","s","e","r","c","o","n","t","e","n","t",".","c","o","m">>,
      <<"u">>,
      <<"m","a","i","n">>,
      <<"t","a","g","s">>,
      <<"v","1",".","2">>,
      <<"r","e","l","e","a","s","e","s">>,
      <<"d","o","w","n","l","o","a","d">>,
      <<"v","1">> }

SegmentLists == UNION {[1..n -> Segments] : n \in 1..MaxSegs}

\* Paths the generated ones leave out: the other dynamic and versioned
\* patterns, near misses of them, the other hosts and near misses of a host.
ExtraPaths ==
    { <<>>, ScenarioPath, ReleasePath, DynamicPath, DefaultPath, HostPath,
      <<"/","u","/","l","a","t","e","s","t","/","f">>,
      <<"/","u","/","n","i","g","h","t","l","y","/","f">>,
      <<"/","u","/","m","a","s","t","e","r","/","f">>,
      <<"/","u","/","m","a","i","n","l","i","n","e","/","f">>,
      <<"/","u","/","t","a","g","/","f">>,
      <<"/","u","/","1",".","2",".","3","/","f">>,
      <<"/","u","/","v","1",".","2",".","3",".","4","/","f">>,
      <<"/","u","/","v","1",".","/","f">>,
      <<"/","u","/","r","e","l","e","a","s","e","s","/","d","o","w","n","l","o","a","d","/","7","/","f">>,
      <<"/","u","/","r","e","l","e","a","s","e","s","/","d","o","w","n","l","o","a","d","/","x","1">>,
      <<"/","u","/","m","a","i","n","/","t","a","g","s","/","v","1",".","2","/","f">>,
      <<"/","g","i","s","t",".","g","i","t","h","u","b",".","c","o","m","/","u","/","1">>,
      <<"/","g","i","s","t",".","g","i","t","h","u","b","u","s","e","r","c","o","n","t","e","n","t",".","c","o","m","/","u","/","1","/">>,
      <<"/","G","i","t","H","u","b",".","c","o","m","/","u">>,
      <<"/","g","i","t","h","u","b",".","c","o","m",".","e",".","c","o","/","u">>,
      <<"/","@","e",".","c","o","/","u">>,
      <<"/","u","@","e",".","c","o">> }

WidePaths == {<<"/">> \o Join(segs, <<"/">>) : segs \in SegmentLists} \cup ExtraPaths

WideSearches == {<<>>, <<"?","@","e",".","c","o","/","x">>}

\* One request with a path and a query out of many; the upstream answers 200.
NextWide ==
    \/ /\ started = 0
       /\ \E m \in Methods, p \in WidePaths, s \in WideSearches :
             Receive(1, m, p, s, NoHeaders)
    \/ CacheMatch(1)
    \/ FetchAttempt(1, UpstreamAnswer(200, <<>>))
    \/ \E t \in tasks : CachePut(t)
    \/ \E t \in tasks : EarlyHintSettle(t)

SpecWide == Init /\ [][NextWide]_vars

\* ------------------------------------------- one request and its upstream

FetchPaths == {DynamicPath, ScenarioPath}

\* request.headers of the requests of SpecFetch: allow-listed names, other
\* names, and a header that is present with an empty value.
FetchHeaders ==
    { NoHeaders,
      ("if-none-match" :> <<"\"","e","1","\"">>),
      ("range" :> <<"b","y","t","e","s","=","0","-","9">>) @@ ("if-range" :> <<"\"","e","1","\"">>),
      ("authorization" :> <<"B","e","a","r","e","r"," ","t">>) @@ ("cookie" :> <<"s","=","1">>),
      ("range" :> <<"b","y","t","e","s","=","0","-","9">>) @@ ("if-range" :> <<"\"","e","1","\"">>) @@ ("if-none-match" :> <<"\"","e","1","\"">>)
        @@ ("if-modified-since" :> <<"M","o","n">>) @@ ("user-agent" :> <<"c","u","r","l">>)
        @@ ("accept" :> <<"*","/","*">>) @@ ("accept-encoding" :> <<"g","z","i","p">>)
        @@ ("authorization" :> <<"B","e","a","r","e","r"," ","t">>) @@ ("cookie" :> <<"s","=","1">>)
        @@ ("x-forwarded-for" :> <<"1",".","1",".","1",".","1">>) @@ ("host" :> <<"p",".","d","e","v">>),
      ("accept-encoding" :> <<>>) @@ ("user-agent" :> <<"c","u","r","l">>),
      ("accept-encoding" :> <<"g","z","i","p">>) @@ ("authorization" :> <<"B","e","a","r","e","r"," ","t">>),
      ("if-modified-since" :> <<"M","o","n">>) @@ ("accept" :> <<"*","/","*">>) }

\* What an attempt of SpecFetch can end with.
FetchOutcomes ==
    {UpstreamAnswer(200, <<>>),
     UpstreamAnswer(200, <<"\"","e","1","\"">>),
     UpstreamAnswer(206, <<>>),
     UpstreamAnswer(304, <<>>),
     UpstreamAnswer(404, <<>>),
     UpstreamAnswer(500, <<>>),
     UpstreamAnswer(503, <<>>),
     UpstreamError,
     UpstreamTimeout}

\* One GET or HEAD request, every outcome of every upstream attempt, and the
\* promises given to ctx.waitUntil settling, failing or staying pending.
NextFetch ==
    \/ /\ started = 0
       /\ \E m \in {"GET", "HEAD"}, p \in FetchPaths, h \in FetchHeaders :
             Receive(1, m, p, <<>>, h)
    \/ CacheMatch(1)
    \/ \E o \in FetchOutcomes : FetchAttempt(1, o)
    \/ \E t \in tasks : CachePut(t)
    \/ \E t \in tasks : CachePutFail(t)
    \/ \E t \in tasks : EarlyHintSettle(t)
    \/ Tick

SpecFetch == Init /\ [][NextFetch]_vars

\* --------------------------------------- two requests with query strings

\* The queries of the requests of SpecQuery: none, one of another name, and
\* the names the cache key builder sets.
QuerySearches == {<<>>, <<"?","x","=","1">>, <<"?","_","_","v","=","1">>, <<"?","_","_","e","n","c","=","g","z","i","p">>}

\* Two GET requests for one path, the second one received by slot 2 once
\* slot 1 has answered; the upstream answers 200, with or without an ETag.
NextQuery ==
    \/ /\ started = 0
       /\ \E s \in QuerySearches, ae \in AcceptEncodings :
             Receive(1, "GET", DefaultPath, s, InHeaders(<<>>, ae))
    \/ /\ started = 1
       /\ req[1].pc = "done"
       /\ \E s \in QuerySearches, ae \in AcceptEncodings :
             Receive(2, "GET", DefaultPath, s, InHeaders(<<>>, ae))
    \/ \E r \in Slots : CacheMatch(r)
    \/ \E r \in Slots, o \in {UpstreamAnswer(200, <<>>), UpstreamAnswer(200, <<"\"","e","1","\"">>)} :
          FetchAttempt(r, o)
    \/ \E t \in tasks : CachePut(t)
    \/ Tick

SpecQuery == Init /\ [][NextQuery]_vars

\* ------------------------------------------------ calls of extractETag

ETagAlphabet == {"W", "/", "\"", "a", "1"}

Tag40 == <<"0","1","2","3","4","5","6","7","8","9","a","b","c","d","e","f","0","1","2","3","4","5","6","7","8","9","a","b","c","d","e","f","0","1","2","3","4","5","6","7">>

\* The values of the ETag header: absent, every string of up to three
\* characters of the alphabet, and longer strong, weak and malformed tags.
ETagHeaders ==
    {<<>>}
    \cup UNION {[1..n -> ETagAlphabet] : n \in 1..MaxTagLen}
    \cup { <<"W","/","\"","a","b","c","1","2","3","\"">>, <<"\"","a","b","c","1","2","3","\"">>,
           <<"\"">> \o Tag40 \o <<"\"">>,
           <<"W","/","\"">> \o Tag40 \o <<"\"">>,
           <<"\"">> \o SubSeq(Tag40, 1, 32) \o <<"\"">>,
           <<"\"">> \o SubSeq(Tag40, 1, 33) \o <<"\"">>,
           Tag40,
           <<"w","/","\"","a","1","\"">>, <<"\"","a","\"","1","\"">> }

\* extractETag is called on a response with this ETag header.
ExtractETagCall(header) ==
    /\ "etag" \notin DOMAIN probe
    /\ probe' = ("etag" :> [header |-> header, result |-> extractETag(header)])
    /\ UNCHANGED <<today, cache, req, tasks, started>>

NextETag == \E header \in ETagHeaders : ExtractETagCall(header)

SpecETag == Init /\ [][NextETag]_vars

\* ------------------------------------------------ requests that must end

\* What an attempt of SpecLive can end with.
LiveOutcomes ==
    {UpstreamAnswer(200, <<>>), UpstreamAnswer(404, <<>>),
     UpstreamAnswer(500, <<>>), UpstreamTimeout}

\* Requests of every method, one after the other, on a path without segments
\* and on a valid one, with and without Range.
NextLive ==
    \/ \E m \in Methods, p \in {RootPath, ScenarioPath}, rg \in RangeValues :
          Receive(1, m, p, <<>>, InHeaders(rg, <<>>))
    \/ CacheMatch(1)
    \/ \E o \in LiveOutcomes : FetchAttempt(1, o)
    \/ \E t \in tasks : CachePut(t)
    \/ \E t \in tasks : CachePutFail(t)

\* cache.match resolves, and every upstream attempt completes or is ended by
\* the abort of its timeout (worker.js:143); nothing is assumed of the promises
\* given to ctx.waitUntil nor of the arrival of requests.
SpecLive ==
    /\ Init
    /\ [][NextLive]_vars
    /\ WF_vars(CacheMatch(1))
    /\ WF_vars(\E o \in LiveOutcomes : FetchAttempt(1, o))

\* ------------------------------------------------------ concurrent requests

\* The upstream answers of SpecRace: the ETag tells the responses apart.
RaceOutcomes ==
    {UpstreamAnswer(200, <<>>), UpstreamAnswer(200, <<"\"","e","1","\"">>),
     UpstreamAnswer(200, <<"\"","e","2","\"">>), UpstreamAnswer(404, <<>>)}

\* Two GET requests without Range handled at the same time by two
\* invocations of the handler, their awaits interleaved in every order.
NextRace ==
    \/ \E r \in Slots, p \in {DynamicPath, ScenarioPath} :
          req[r].pc = "idle" /\ Receive(r, "GET", p, <<>>, NoHeaders)
    \/ \E r \in Slots : CacheMatch(r)
    \/ \E r \in Slots, o \in RaceOutcomes : FetchAttempt(r, o)
    \/ \E t \in tasks : CachePut(t)

SpecRace == Init /\ [][NextRace]_vars

\* ---------------------------------------------- calls of the cache key builder

KeyUrls ==
    { ProxyOrigin \o <<"/","a">>,
      ProxyOrigin \o <<"/","b">>,
      ProxyOrigin \o <<"/","a","?","x","=","1">>,
      ProxyOrigin \o <<"/","a","?","_","_","v","=","1">>,
      ProxyOrigin \o <<"/","a","?","_","_","v","=","2">>,
      ProxyOrigin \o <<"/","a","?","_","_","e","n","c","=","g","z","i","p">> }

KeyEncodings ==
    { <<>>, <<"g","z","i","p">>, <<"b","r">>, <<"g","z","i","p",","," ","b","r">>,
      <<"i","d","e","n","t","i","t","y">> }

KeyVersions == { <<>>, <<"e","1">>, <<"e","2">> }

KeyArgs == [url : KeyUrls, acceptEncoding : KeyEncodings, version : KeyVersions]

\* A call of getOptimalCacheKey: its arguments, the date its clock showed and
\* its result.
KeyCall(args, day) ==
    [args |-> args, day |-> day,
     key  |-> getOptimalCacheKey(args.url, args.acceptEncoding, args.version, Dates[day])]

BuildKey(which, args) ==
    /\ which \notin DOMAIN probe
    /\ probe' = (which :> KeyCall(args, today)) @@ probe
    /\ UNCHANGED <<today, cache, req, tasks, started>>

\* Two calls of the key builder, at any two times.
NextKey ==
    \/ \E args \in KeyArgs : BuildKey("a", args)
    \/ \E args \in KeyArgs : BuildKey("b", args)
    \/ Tick

SpecKey == Init /\ [][NextKey]_vars

\* =================================================================== claims

\* A header of the response of slot r, "" when it is absent.
RespHeader(r, name) ==
    IF name \in DOMAIN req[r].resp.headers THEN req[r].resp.headers[name] ELSE ""

\* The response of slot r was handed to the client and is a cache hit.
AnsweredHit(r) == req[r].pc = "done" /\ RespHeader(r, "x-cache-status") = "HIT"

ScenarioTarget ==
    <<"h","t","t","p","s",":","/","/","g","i","t","h","u","b",".","c","o","m","/","t","o","r","v","a","l","d","s","/","l","i","n","u","x",
      "/","a","r","c","h","i","v","e","/","r","e","f","s","/","t","a","g","s","/","v","6",".","6",".","t","a","r",".","g","z">>

\* C1: a GET without Range that is received while the cache holds the entry
\* an identical request (same URL, same Accept-Encoding) received on the same
\* UTC date wrote after its own miss and an upstream 200 is, once its lookup
\* is made, answered with X-Cache-Status: HIT, under each of the three
\* strategies.
C1_RepeatIsHit ==
    \A r \in Slots : (req[r].prior /\ req[r].lookedUp) => AnsweredHit(r)

\* C2: under the versioned strategy the repeat of a stored request on the same
\* date is a HIT; the first request of a behaviour (the cache is empty) for a
\* GET of a versioned path is answered MISS with X-Cache-Strategy: versioned and the
\* upstream's status, and for scenario A's path with scenario A's target.
C2_VersionedRepeatHits ==
    \A r \in Slots :
        LET q == req[r]
            versioned == q.cacheStrategy.description = "versioned"
        IN  /\ (q.prior /\ q.lookedUp /\ versioned) => AnsweredHit(r)
            /\ (q.pc = "done" /\ q.n = 1 /\ q.method = "GET" /\ versioned) =>
                  /\ RespHeader(r, "x-cache-status") = "MISS"
                  /\ RespHeader(r, "x-cache-strategy") = "versioned"
                  /\ q.attempts > 0
                  /\ q.resp.status = q.upstreamStatus
            /\ (q.pc = "done" /\ q.n = 1 /\ q.method = "GET"
                /\ q.url = ProxyOrigin \o ScenarioPath) =>
                  /\ versioned
                  /\ q.resp.headers["x-github-target"] = ScenarioTarget

\* Scenario B happened: scenario A's request was repeated and answered HIT.
C2_Witness ==
    \E r \in Slots :
        /\ req[r].prior
        /\ req[r].n = 2
        /\ req[r].url = ProxyOrigin \o ScenarioPath
        /\ AnsweredHit(r)
        /\ req[r].resp.status = 200

\* Slot r made no upstream call, no cache lookup and no cache write.
Untouched(r) ==
    /\ req[r].attempts = 0
    /\ ~req[r].lookedUp
    /\ ~req[r].stored
    /\ \A t \in tasks : t.kind = "put" => t.n # req[r].n

\* C3: an OPTIONS request to any path, also one without segments, is answered
\* 204 with an empty body and the four CORS preflight headers, and makes no
\* upstream call, cache lookup or cache write.
C3_PreflightAnyPath ==
    \A r \in Slots :
        (req[r].pc # "idle" /\ req[r].method = "OPTIONS") =>
            /\ req[r].pc = "done"
            /\ req[r].resp.status = 204
            /\ req[r].resp.body = NoBody
            /\ RespHeader(r, "access-control-allow-origin") = "*"
            /\ RespHeader(r, "access-control-allow-methods") = "GET,HEAD,OPTIONS"
            /\ RespHeader(r, "access-control-allow-headers") = "*"
            /\ RespHeader(r, "access-control-max-age") = "86400"
            /\ Untouched(r)

\* C4: a request whose method is none of GET, HEAD, OPTIONS is answered 405
\* whatever its path is, and makes no upstream call or cache access.
C4_OtherMethod405 ==
    \A r \in Slots :
        (req[r].pc # "idle" /\ req[r].method \notin {"GET", "HEAD", "OPTIONS"}) =>
            /\ req[r].pc = "done"
            /\ req[r].resp.status = 405
            /\ Untouched(r)

\* The pathname of the request of slot r.
Pathname(r) == URL(req[r].url).pathname

\* A path without a non-empty segment: all its characters are slashes.
OnlySlashes(pathname) == \A i \in 1..Len(pathname) : pathname[i] = "/"

UsageMessage == "Invalid path. Usage: /[github.com]/user/repo/path/to/file"

\* C5: a GET or HEAD whose path has no non-empty segment ends with status 400
\* and the plain-text usage message, with no strategy selected, no early hint,
\* no cache access and no upstream call; a GET or HEAD of any other path is
\* resolved and never gets that response.
C5_NoSegments400 ==
    \A r \in Slots :
        (req[r].pc # "idle" /\ req[r].method \in {"GET", "HEAD"}) =>
            IF OnlySlashes(Pathname(r))
            THEN /\ req[r].pc = "done"
                 /\ req[r].resp.status = 400
                 /\ RespHeader(r, "content-type") = "text/plain"
                 /\ req[r].resp.body.text = UsageMessage
                 /\ ~req[r].githubInfo.valid
                 /\ req[r].cacheStrategy = NoStrategy
                 /\ ~req[r].hinted
                 /\ Untouched(r)
            ELSE /\ req[r].githubInfo.valid
                 /\ req[r].cacheStrategy # NoStrategy
                 /\ req[r].resp.body.text # UsageMessage

\* A GET of a path made of slashes alone was answered 400.
C5_Witness ==
    \E r \in Slots :
        /\ req[r].method = "GET"
        /\ Pathname(r) = <<"/", "/">>
        /\ req[r].pc = "done"
        /\ req[r].resp.status = 400

\* The path without its leading slashes.
RECURSIVE StripSlashes(_)
StripSlashes(p) == IF p # <<>> /\ Head(p) = "/" THEN StripSlashes(Tail(p)) ELSE p

\* The first segment of a path, and what follows it in the path.
FirstSegment(p) ==
    LET t == StripSlashes(p)
        i == IndexOf(t, "/")
    IN  IF i = 0 THEN t ELSE SubSeq(t, 1, i - 1)

AfterFirstSegment(p) ==
    LET t == StripSlashes(p)
        i == IndexOf(t, "/")
    IN  IF i = 0 THEN <<>> ELSE SubSeq(t, i, Len(t))

\* C6: for a valid path whose first segment is a recognized host, originHost
\* is that host and originPath is the rest of the input path, unchanged ("/"
\* when nothing follows the host); for a valid path without one, originHost is
\* github.com and originPath is the input path.
C6_ResolverResult ==
    \A r \in Slots :
        req[r].githubInfo.valid =>
            LET p    == Pathname(r)
                rest == AfterFirstSegment(p)
            IN  IF FirstSegment(p) \in Range(GITHUB_HOSTS)
                THEN /\ req[r].githubInfo.host = FirstSegment(p)
                     /\ req[r].githubInfo.path = IF rest = <<>> THEN <<"/">> ELSE rest
                ELSE /\ req[r].githubInfo.host = <<"g","i","t","h","u","b",".","c","o","m">>
                     /\ req[r].githubInfo.path = p

\* The host an https URL names: its authority, up to the first "/", "?", "#"
\* or "\", without the user information before an "@" and the port after ":".
UrlHost(u) ==
    LET rest  == SubSeq(u, 9, Len(u))
        ends  == {i \in 1..Len(rest) : rest[i] \in {"/", "?", "#", "\\"}}
        e     == IF ends = {} THEN Len(rest) + 1
                 ELSE CHOOSE i \in ends : \A j \in ends : i <= j
        auth  == SubSeq(rest, 1, e - 1)
        ats   == {i \in 1..Len(auth) : auth[i] = "@"}
        a     == IF ats = {} THEN 0 ELSE CHOOSE i \in ats : \A j \in ats : j <= i
        hp    == SubSeq(auth, a + 1, Len(auth))
        c     == IndexOf(hp, ":")
    IN  IF c = 0 THEN hp ELSE SubSeq(hp, 1, c - 1)

\* C7: the URL of every upstream fetch is an https URL whose host is one of
\* the four hosts of GITHUB_HOSTS, and the origin path starts with "/".
C7_UpstreamHostAllowed ==
    \A r \in Slots :
        req[r].attempts > 0 =>
            /\ StartsWith(req[r].fetched, <<"h","t","t","p","s",":","/","/">>)
            /\ UrlHost(req[r].fetched) \in Range(GITHUB_HOSTS)
            /\ StartsWith(req[r].githubInfo.path, <<"/">>)
            /\ req[r].fetched = <<"h","t","t","p","s",":","/","/">>
                                \o req[r].githubInfo.host \o req[r].githubInfo.path
                                \o URL(req[r].url).search

\* An upstream fetch was made for a path and a query that both name another
\* host.
C7_Witness ==
    \E r \in Slots :
        /\ req[r].attempts > 0
        /\ Pathname(r) = <<"/","@","e",".","c","o","/","u">>
        /\ URL(req[r].url).search = <<"?","@","e",".","c","o","/","x">>

\* The segments of a path that a slash follows: all but the last one.
InnerSegments(path) ==
    LET segs == Split(path, "/") IN {segs[i] : i \in 2..(Len(segs) - 1)}

AllDigits(s) == s # <<>> /\ \A i \in 1..Len(s) : IsDigit(s[i])

\* A segment of the form v?N.N or v?N.N.N.
IsVersionSegment(seg) ==
    LET t     == IF seg # <<>> /\ Head(seg) = "v" THEN Tail(seg) ELSE seg
        parts == Split(t, ".")
    IN  Len(parts) \in {2, 3} /\ \A i \in 1..Len(parts) : AllDigits(parts[i])

\* The path has the segments releases, download and one that starts v?N.
HasReleaseDownload(path) ==
    LET segs == Split(path, "/")
    IN  \E i \in 2..(Len(segs) - 2) :
            /\ segs[i] = <<"r","e","l","e","a","s","e","s">>
            /\ segs[i + 1] = <<"d","o","w","n","l","o","a","d">>
            /\ LET s == segs[i + 2]
               IN  \/ IsDigit(At(s, 1))
                   \/ At(s, 1) = "v" /\ IsDigit(At(s, 2))

\* The strategy label the rules give a path, read segment by segment.
ExpectedStrategy(path) ==
    IF InnerSegments(path) \cap
          { <<"l","a","t","e","s","t">>, <<"n","i","g","h","t","l","y">>,
            <<"m","a","s","t","e","r">>, <<"m","a","i","n">> } # {}
    THEN "dynamic"
    ELSE IF \/ \E seg \in InnerSegments(path) : IsVersionSegment(seg)
            \/ InnerSegments(path) \cap {<<"t","a","g">>, <<"t","a","g","s">>} # {}
            \/ HasReleaseDownload(path)
    THEN "versioned"
    ELSE "default"

\* C8: the strategy selected for a path is dynamic when the path has a
\* latest, nightly, master or main segment followed by a slash, also when it
\* matches a versioned pattern; otherwise versioned when it has a v?N.N[.N],
\* tag or tags segment followed by a slash or /releases/download/v?N;
\* otherwise default. The three paths of the specification get versioned,
\* dynamic and default.
C8_StrategyByPriority ==
    \A r \in Slots :
        req[r].cacheStrategy # NoStrategy =>
            /\ req[r].cacheStrategy.description = ExpectedStrategy(req[r].githubInfo.path)
            /\ req[r].githubInfo.path = ReleasePath =>
                  req[r].cacheStrategy.description = "versioned"
            /\ req[r].githubInfo.path = DynamicPath =>
                  req[r].cacheStrategy.description = "dynamic"
            /\ req[r].githubInfo.path = DefaultPath =>
                  req[r].cacheStrategy.description = "default"

\* A path with a main segment and a versioned pattern was given a strategy.
C8_Witness ==
    \E r \in Slots :
        /\ req[r].cacheStrategy # NoStrategy
        /\ req[r].githubInfo.path =
              <<"/","u","/","m","a","i","n","/","t","a","g","s","/","v","1",".","2","/","f">>
        /\ req[r].cacheStrategy.description = "dynamic"

\* The request of slot r passed the validation of its path and its method.
Proxied(r) == req[r].cacheStrategy # NoStrategy

\* The Cache-Control value of each strategy.
ExpectedCacheControl(description) ==
    CASE description = "dynamic" ->
           <<"p","u","b","l","i","c",","," ","m","a","x","-","a","g","e","=","3","0","0",",",
             " ","s","-","m","a","x","a","g","e","=","3","6","0","0",","," ","s","t","a","l",
             "e","-","w","h","i","l","e","-","r","e","v","a","l","i","d","a","t","e","=","8",
             "6","4","0","0">>
      [] description = "versioned" ->
           <<"p","u","b","l","i","c",","," ","m","a","x","-","a","g","e","=","8","6","4","0",
             "0",","," ","s","-","m","a","x","a","g","e","=","2","5","9","2","0","0","0",",",
             " ","s","t","a","l","e","-","w","h","i","l","e","-","r","e","v","a","l","i","d",
             "a","t","e","=","8","6","4","0","0">>
      [] description = "default" ->
           <<"p","u","b","l","i","c",","," ","m","a","x","-","a","g","e","=","3","6","0","0",
             ","," ","s","-","m","a","x","a","g","e","=","8","6","4","0","0",","," ","s","t",
             "a","l","e","-","w","h","i","l","e","-","r","e","v","a","l","i","d","a","t","e",
             "=","8","6","4","0","0">>

\* C9: every response to a request that passed validation, HIT or MISS,
\* carries the Cache-Control value of the strategy selected for the path of
\* this request: public, max-age=B, s-maxage=E, stale-while-revalidate=86400
\* with B/E 300/3600, 86400/2592000 or 3600/86400.
C9_CacheControlOfStrategy ==
    \A r \in Slots :
        (Proxied(r) /\ req[r].pc = "done") =>
            /\ RespHeader(r, "x-cache-status") \in {"HIT", "MISS"}
            /\ req[r].resp.headers["cache-control"]
                 = ExpectedCacheControl(req[r].cacheStrategy.description)

\* A response was served from the cache under the default strategy.
C9_Witness ==
    \E r \in Slots :
        /\ AnsweredHit(r)
        /\ req[r].cacheStrategy.description = "default"
        /\ req[r].resp.headers["cache-control"] = ExpectedCacheControl("default")

\* The version a call of the key builder used: its argument, or the date stamp.
UsedVersion(call) ==
    IF call.args.version # <<>> THEN call.args.version
    ELSE getCacheVersion(Dates[call.day])

\* C10: two calls of the cache key builder give the same key if and only if
\* they agree on the URL, on the encoding tag derived from Accept-Encoding
\* (br, gzip or none) and on the version used.
C10_KeyIdentity ==
    ("a" \in DOMAIN probe /\ "b" \in DOMAIN probe) =>
        (probe["a"].key = probe["b"].key
            <=> /\ probe["a"].args.url = probe["b"].args.url
                /\ EncodingTag(probe["a"].args.acceptEncoding)
                     = EncodingTag(probe["b"].args.acceptEncoding)
                /\ UsedVersion(probe["a"]) = UsedVersion(probe["b"]))

\* ------------------------------------------------------ the upstream fetcher

\* The statuses of the responses the attempts of slot r ended with, 0 for an
\* attempt that ended in an error.
SeenStatuses(r) == [k \in DOMAIN req[r].seen |-> req[r].seen[k].status]

\* Attempt k of slot r was the last one, no delay followed it, and its
\* response was returned to the handler, which answered with it.
ReturnedFrom(r, k) ==
    /\ k = Len(req[r].seen)
    /\ req[r].attempts = k
    /\ Len(req[r].delays) = k - 1
    /\ req[r].pc = "done"
    /\ req[r].error = ""
    /\ req[r].upstreamStatus = req[r].seen[k].status

\* The delays taken before attempt k + 1: RETRY_DELAY_MS, 2 * RETRY_DELAY_MS, ...
DelaysBefore(k) == [j \in 1..(k - 1) |-> RETRY_DELAY_MS * j]

\* C11: an upstream attempt that yields a response with a status in 200..399
\* is the last attempt: its response is returned from that attempt and no
\* retry delay follows it.
C11_SuccessOrRedirectReturned ==
    \A r \in Slots : \A k \in DOMAIN req[r].seen :
        (req[r].seen[k].kind = "response"
         /\ req[r].seen[k].status >= 200 /\ req[r].seen[k].status <= 399)
            => ReturnedFrom(r, k)

\* C12: an upstream attempt that yields a 4xx response is the last attempt:
\* the response is returned from it, as a response and not as an error, with
\* no retry and no delay after it; a 404 on the first attempt makes one
\* attempt in total.
C12_ClientErrorReturned ==
    \A r \in Slots : \A k \in DOMAIN req[r].seen :
        (req[r].seen[k].kind = "response"
         /\ req[r].seen[k].status >= 400 /\ req[r].seen[k].status <= 499)
            => /\ ReturnedFrom(r, k)
               /\ req[r].resp.status = req[r].seen[k].status
               /\ req[r].delays = DelaysBefore(k)

\* A 404 on the first attempt was returned.
C12_Witness ==
    \E r \in Slots :
        /\ SeenStatuses(r) = <<404>>
        /\ req[r].pc = "done"
        /\ req[r].attempts = 1
        /\ req[r].delays = <<>>

\* C13: a 5xx response of attempt k is followed by the delay and by another
\* attempt while retries remain (k <= MAX_RETRIES); the 5xx response of attempt
\* MAX_RETRIES + 1 is returned without an error; the responses 500, 500, 200
\* end with the 200 returned after exactly two retries.
C13_ServerErrorRetried ==
    \A r \in Slots :
        /\ \A k \in DOMAIN req[r].seen :
             (req[r].seen[k].kind = "response" /\ req[r].seen[k].status >= 500)
                => IF k <= MAX_RETRIES
                   THEN /\ Len(req[r].delays) >= k
                        /\ req[r].delays[k] = RETRY_DELAY_MS * k
                        /\ k = Len(req[r].seen) => req[r].pc = "fetch"
                   ELSE /\ k = MAX_RETRIES + 1
                        /\ ReturnedFrom(r, k)
                        /\ req[r].resp.status = req[r].seen[k].status
        /\ SeenStatuses(r) = <<500, 500, 200>>
             => /\ ReturnedFrom(r, 3)
                /\ req[r].resp.status = 200
                /\ req[r].delays = DelaysBefore(3)

\* Three 5xx responses were seen and the last one, a 503, was returned.
C13_Witness ==
    \E r \in Slots :
        /\ SeenStatuses(r) = <<500, 500, 503>>
        /\ req[r].pc = "done"
        /\ req[r].resp.status = 503

\* Every attempt of slot r so far ended in a network error or a timeout.
AllErrors(r) == \A k \in DOMAIN req[r].seen : req[r].seen[k].kind = "error"

\* The cache write of request number n is scheduled.
PutScheduled(n) == \E t \in tasks : t.kind = "put" /\ t.n = n

\* C14: when every attempt ends in an error, the fetcher goes on until
\* MAX_RETRIES + 1 attempts are made and then throws the error of the last one;
\* the request fails with no response assembled, no cache write is scheduled
\* and the cache is as it was.
C14_TransportFailureRaised ==
    \A r \in Slots :
        /\ (AllErrors(r) /\ req[r].seen # <<>>)
             => IF Len(req[r].seen) <= MAX_RETRIES
                THEN req[r].pc = "fetch" /\ req[r].error = ""
                ELSE /\ req[r].pc = "failed"
                     /\ req[r].attempts = MAX_RETRIES + 1
                     /\ req[r].delays = DelaysBefore(MAX_RETRIES + 1)
                     /\ req[r].error = req[r].seen[MAX_RETRIES + 1].error
                     /\ req[r].resp = NoResponse
                     /\ ~req[r].stored
                     /\ ~PutScheduled(req[r].n)
                     /\ cache = <<>>
        /\ req[r].pc = "failed" => AllErrors(r) \/ req[r].seen[Len(req[r].seen)].kind = "error"

\* A GET failed after a network error, a network error and a timeout.
C14_Witness ==
    \E r \in Slots :
        /\ req[r].pc = "failed"
        /\ req[r].method = "GET"
        /\ req[r].seen = <<UpstreamError, UpstreamError, UpstreamTimeout>>
        /\ req[r].error = "AbortError"

\* The response of slot r was assembled from an upstream response.
AnsweredMiss(r) == req[r].pc = "done" /\ RespHeader(r, "x-cache-status") = "MISS"

\* C15: a response assembled after a miss has the status of the response the
\* fetcher returned, which is the one of the last attempt: a 4xx and the last
\* 5xx of an exhausted fetcher keep their status.
C15_StatusPassedThrough ==
    \A r \in Slots :
        AnsweredMiss(r) =>
            /\ req[r].seen # <<>>
            /\ req[r].seen[Len(req[r].seen)].kind = "response"
            /\ req[r].resp.status = req[r].seen[Len(req[r].seen)].status
            /\ req[r].error = ""

\* The last 5xx of an exhausted fetcher was passed to the client.
C15_Witness ==
    \E r \in Slots :
        /\ AnsweredMiss(r)
        /\ req[r].attempts = MAX_RETRIES + 1
        /\ req[r].resp.status = 503

\* --------------------------------------------------- cache bypass and markers

\* Slot r handles a GET with a Range header or a HEAD, on a valid path.
Bypassing(r) ==
    /\ Proxied(r)
    /\ \/ req[r].method = "HEAD"
       \/ req[r].method = "GET" /\ "range" \in DOMAIN req[r].headers

C17_MarkersTellTheSource ==
    \A r \in Slots :
        (Proxied(r) /\ req[r].pc = "done") =>
            /\ RespHeader(r, "x-cache-status") \in {"HIT", "MISS"}
            /\ RespHeader(r, "x-cache-status") = "HIT"
                 <=> (req[r].lookedUp /\ req[r].attempts = 0)
            /\ RespHeader(r, "x-cache-status") = "MISS"
                 <=> (req[r].attempts >= 1 /\ req[r].seen[req[r].attempts].kind = "response")
            /\ RespHeader(r, "x-cache-status") = "MISS"
                 => req[r].resp.body.from = req[r].upstreamUrl
            /\ RespHeader(r, "x-cache-strategy")
                 = ExpectedStrategy(req[r].githubInfo.path)

\* A hit was served from an entry that was stored with the MISS marker.
C17_Witness ==
    \E r \in Slots :
        /\ AnsweredHit(r)
        /\ req[r].attempts = 0
        /\ req[r].initialCacheKey \in DOMAIN cache
        /\ cache[req[r].initialCacheKey].resp.headers["x-cache-status"] = "MISS"

\* The value of the __v parameter of a cache key.
KeyVersion(key) ==
    LET params == SearchParams(URL(key).search)
        k == CHOOSE j \in 1..Len(params) : params[j][1] = <<"_","_","v">>
    IN  params[k][2]

\* C18: on a MISS response X-Mirror-Version is the version of the final cache
\* key of the request, whatever the clock did while the request was handled.
C18_MirrorVersionIsKeyVersion ==
    \A r \in Slots :
        AnsweredMiss(r) =>
            req[r].resp.headers["x-mirror-version"] = KeyVersion(req[r].finalCacheKey)

\* ------------------------------------------- forwarded headers, side effects

\* The allow-list of the claim.
AllowList ==
    {"range", "if-range", "if-none-match", "if-modified-since",
     "user-agent", "accept", "accept-encoding"}

\* Slot r called the upstream.
CalledUpstream(r) == req[r].attempts >= 1

\* C19 as stated: the upstream request carries each allow-listed header
\* exactly when the inbound request has it, with the inbound value, and no
\* other header.
C19_AllowListWhenPresent ==
    \A r \in Slots :
        CalledUpstream(r) =>
            /\ DOMAIN req[r].passHeaders = AllowList \cap DOMAIN req[r].headers
            /\ \A h \in DOMAIN req[r].passHeaders :
                  req[r].passHeaders[h] = req[r].headers[h]

\* C19, amended: the upstream request carries each allow-listed header exactly
\* when the inbound request has it with a non-empty value, with the inbound
\* value, and no other header.
C19_AllowListWhenNonEmpty ==
    \A r \in Slots :
        CalledUpstream(r) =>
            /\ DOMAIN req[r].passHeaders
                 = {h \in AllowList \cap DOMAIN req[r].headers : req[r].headers[h] # <<>>}
            /\ \A h \in DOMAIN req[r].passHeaders :
                  req[r].passHeaders[h] = req[r].headers[h]

\* A request with the seven allow-listed headers, Authorization, Cookie and
\* two more was sent upstream with the seven.
C19_Witness ==
    \E r \in Slots :
        /\ CalledUpstream(r)
        /\ {"authorization", "cookie"} \subseteq DOMAIN req[r].headers
        /\ DOMAIN req[r].passHeaders = AllowList

\* The early hint of request number n has not settled.
HintPending(n) == \E t \in tasks : t.kind = "hint" /\ t.n = n

\* C20: in every step, the early hint is dispatched exactly for the GET
\* requests that got a strategy; a step of a handler settles no side effect
\* and waits for none (the pending ones stay pending); a side effect that
\* settles, with success or with failure, changes no request; and a response
\* handed to the client stays as it is, whatever settles later or never does.
C20_SideEffectsNotAwaited ==
    [][/\ \A r \in Slots :
             /\ req'[r].pc # "idle" =>
                   (req'[r].hinted <=> (req'[r].method = "GET"
                                        /\ req'[r].cacheStrategy # NoStrategy))
             /\ req'[r].n # req[r].n =>
                   (req'[r].hinted <=> [kind |-> "hint", n |-> req'[r].n,
                                        key |-> <<>>, entry |-> NoEntry] \in tasks')
             /\ (req[r].pc = "done" /\ req'[r].n = req[r].n) => req'[r] = req[r]
       /\ req' # req => tasks \subseteq tasks'
       /\ tasks' # tasks => (req' = req <=> \E t \in tasks : tasks' = tasks \ {t})
      ]_vars

\* A GET was answered 200 and its cache write was scheduled; the write failed
\* and the early hint has not settled.
C20_Witness ==
    \E r \in Slots :
        /\ AnsweredMiss(r)
        /\ req[r].resp.status = 200
        /\ req[r].stored
        /\ ~PutScheduled(req[r].n)
        /\ req[r].finalCacheKey \notin DOMAIN cache
        /\ HintPending(req[r].n)

\* ------------------------------------------------ expiry and cache identity

\* Slot r handles a GET without Range on a valid path.
Cacheable(r) ==
    Proxied(r) /\ req[r].method = "GET" /\ "range" \notin DOMAIN req[r].headers

\* C21: with the date of a request taken as the UTC date on which it arrived
\* (the date of its lookup key): the first request is never a hit; a hit of
\* the second request, which only the first one's write can serve, is a hit of
\* a request of the same date; and the second request, when it is the first
\* one for its URL on its date, is a miss.
C21_DailyExpiry ==
    /\ ~AnsweredHit(1)
    /\ AnsweredHit(2) => req[1].day = req[2].day
    /\ (Cacheable(2) /\ req[2].lookedUp
        /\ ~(req[1].url = req[2].url /\ req[1].day = req[2].day))
          => ~AnsweredHit(2)

\* C28: a response served from the cache names, in X-GitHub-Target, the
\* upstream URL the current request resolves to (host, path and the query of
\* the request), also when the query has a parameter named __v or __enc.
C28_HitIsOfSameUpstream ==
    \A r \in Slots :
        AnsweredHit(r) =>
            req[r].resp.headers["x-github-target"] = req[r].upstreamUrl

\* ------------------------------------------------------- ETag normalization

\* An entity-tag as HTTP defines it: an optional W/ and a quoted string
\* without a double quote inside.
WellFormedTag(h) ==
    LET body == IF Len(h) >= 2 /\ SubSeq(h, 1, 2) = <<"W", "/">>
                THEN SubSeq(h, 3, Len(h)) ELSE h
    IN  /\ Len(body) >= 2
        /\ body[1] = "\"" /\ body[Len(body)] = "\""
        /\ \A k \in 2..(Len(body) - 1) : body[k] # "\""

\* What is between the quotes of a well-formed tag.
OpaqueTag(h) ==
    LET body == IF SubSeq(h, 1, 2) = <<"W", "/">> THEN SubSeq(h, 3, Len(h)) ELSE h
    IN  SubSeq(body, 2, Len(body) - 1)

FirstChars(s, n) == SubSeq(s, 1, IF Len(s) < n THEN Len(s) ELSE n)

\* C22: an absent ETag header gives null; the result never has a double quote
\* nor more than 32 characters; for a well-formed tag it is the first 32
\* characters of what is between the quotes, so W/"abc123" gives abc123 and a
\* quoted tag of 40 characters gives its first 32.
C22_ETagNormalized ==
    "etag" \in DOMAIN probe =>
        LET h == probe["etag"].header
            e == probe["etag"].result
        IN  /\ h = <<>> => e = <<>>
            /\ Len(e) <= 32
            /\ \A k \in 1..Len(e) : e[k] # "\""
            /\ WellFormedTag(h) => e = FirstChars(OpaqueTag(h), 32)
            /\ h = <<"W","/","\"","a","b","c","1","2","3","\"">>
                 => e = <<"a","b","c","1","2","3">>
            /\ h = <<"\"">> \o Tag40 \o <<"\"">> => e = SubSeq(Tag40, 1, 32)

\* A quoted tag of 40 characters was cut to 32.
C22_Witness ==
    /\ "etag" \in DOMAIN probe
    /\ probe["etag"].header = <<"\"">> \o Tag40 \o <<"\"">>
    /\ Len(probe["etag"].result) = 32

\* ------------------------------------------------- cache writes and backoff

\* Slot r has just ended: with a response or with the error of the fetcher.
Ended(r) == req[r].pc \in {"done", "failed"}

\* The last upstream attempt of slot r returned a 200.
Got200(r) ==
    /\ req[r].seen # <<>>
    /\ req[r].seen[Len(req[r].seen)].kind = "response"
    /\ req[r].seen[Len(req[r].seen)].status = 200

\* C23: in every step, each entry of the cache has status 200; the cache
\* changes only by the completion of a scheduled write, which puts the
\* scheduled entry under the scheduled key; a write is scheduled only by a GET
\* without Range whose upstream response is a 200; a request that ends as a
\* HEAD, with a Range header, with another upstream status (206, 304, 404,
\* 500, 503) or with a failed fetch schedules no write and leaves the cache
\* as it is.
C23_OnlyFull200Stored ==
    [][/\ \A k \in DOMAIN cache' : cache'[k].resp.status = 200
       /\ cache' # cache =>
             \E t \in tasks : /\ t.kind = "put"
                              /\ t \notin tasks'
                              /\ cache' = (t.key :> t.entry) @@ cache
       /\ \A t \in tasks' \ tasks :
             t.kind = "put" =>
                /\ t.entry.resp.status = 200
                /\ \E r \in Slots :
                      /\ req'[r].n = t.n
                      /\ req'[r].method = "GET"
                      /\ "range" \notin DOMAIN req'[r].headers
                      /\ req'[r].seen[Len(req'[r].seen)].status = 200
       /\ \A r \in Slots :
             (req'[r] # req[r]
              /\ req'[r].pc \in {"done", "failed"}
              /\ \/ req'[r].method # "GET"
                 \/ "range" \in DOMAIN req'[r].headers
                 \/ req'[r].pc = "failed"
                 \/ req'[r].upstreamStatus # 200)
                => tasks' = tasks /\ cache' = cache /\ ~req'[r].stored
      ]_vars

\* A GET without Range got a 206 and its cache write was not scheduled.
C23_Witness ==
    \E r \in Slots :
        /\ Cacheable(r)
        /\ AnsweredMiss(r)
        /\ req[r].resp.status = 206
        /\ ~req[r].stored
        /\ ~PutScheduled(req[r].n)
        /\ cache = <<>>

\* The normalized ETag of the response the fetcher returned to slot r.
ReturnedETag(r) == extractETag(req[r].seen[Len(req[r].seen)].etag)

\* C24: the final key of a miss is the key rebuilt with the normalized upstream
\* ETag as the version exactly when the strategy uses ETags and the upstream
\* response has one; otherwise it is the lookup key built before the fetch.
\* The cache write is scheduled under the final key.
C24_FinalKeySelection ==
    \A r \in Slots :
        AnsweredMiss(r) =>
            /\ IF req[r].cacheStrategy.useETag /\ ReturnedETag(r) # <<>>
               THEN /\ KeyVersion(req[r].finalCacheKey) = ReturnedETag(r)
                    /\ req[r].finalCacheKey
                         = getOptimalCacheKey(req[r].url, req[r].acceptEncoding,
                                              ReturnedETag(r), Now)
                    /\ req[r].finalCacheKey # req[r].initialCacheKey
               ELSE req[r].finalCacheKey = req[r].initialCacheKey
            /\ \A t \in tasks :
                  (t.kind = "put" /\ t.n = req[r].n) => t.key = req[r].finalCacheKey

\* A write was scheduled under a key with the upstream ETag as its version.
C24_Witness ==
    \E r \in Slots :
        /\ AnsweredMiss(r)
        /\ req[r].cacheStrategy.useETag
        /\ ReturnedETag(r) = <<"e","1">>
        /\ \E t \in tasks : t.kind = "put" /\ t.n = req[r].n
                            /\ KeyVersion(t.key) = <<"e","1">>

RECURSIVE SumSeq(_)
SumSeq(s) == IF s = <<>> THEN 0 ELSE Head(s) + SumSeq(Tail(s))

TerminalOutcome(r) ==
    \/ /\ req[r].pc = "done"
       /\ \/ req[r].resp = PreflightResponse
          \/ req[r].resp = InvalidPathResponse
          \/ req[r].resp = MethodNotAllowedResponse
          \/ RespHeader(r, "x-cache-status") = "HIT" /\ req[r].attempts = 0
          \/ /\ RespHeader(r, "x-cache-status") = "MISS"
             /\ req[r].attempts >= 1 /\ req[r].attempts <= MAX_RETRIES + 1
    \/ /\ req[r].pc = "failed"
       /\ req[r].error # ""
       /\ req[r].attempts = MAX_RETRIES + 1

\* C26: a request that is received and not yet answered is eventually at a
\* terminal outcome: 204, 400, 405, a HIT, a MISS or the error of the fetcher;
\* the fetcher never makes more than MAX_RETRIES + 1 attempts, and it has made
\* at least one when it ends.
C26_RequestsEnd ==
    /\ [](\A r \in Slots :
            /\ req[r].attempts <= MAX_RETRIES + 1
            /\ req[r].pc \in {"idle", "match", "fetch", "done", "failed"}
            /\ req[r].pc \in {"done", "failed"} => TerminalOutcome(r))
    /\ \A r \in Slots :
          (req[r].pc \in {"match", "fetch"}) ~> TerminalOutcome(r)

\* A request ended with the error of the fetcher after MAX_RETRIES + 1
\* attempts.
C26_Witness ==
    \E r \in Slots :
        /\ req[r].pc = "failed"
        /\ req[r].attempts = MAX_RETRIES + 1
        /\ TerminalOutcome(r)

\* ----------------------------------------------------------- concurrent misses

\* The last outcome of the attempts of slot r.
LastSeen(r) == req[r].seen[Len(req[r].seen)]

\* Slots a and b handle requests for the same URL and encoding, and both
\* missed and fetched from the upstream.
BothMissed(a, b) ==
    /\ a # b
    /\ AnsweredMiss(a) /\ AnsweredMiss(b)
    /\ req[a].lookedUp /\ req[b].lookedUp
    /\ req[a].url = req[b].url
    /\ req[a].acceptEncoding = req[b].acceptEncoding

ExplicitForm(r) ==
    parseGitHubPath(<<"/","g","i","t","h","u","b",".","c","o","m">> \o Pathname(r))

\* C29: a request whose path /P has a segment and whose first segment is not a
\* recognized host resolves to the upstream URL, and gets the strategy, that
\* the path /github.com/P resolves to and gets, also when P has a trailing
\* slash or repeated slashes.
C29_FormsEquivalent ==
    \A r \in Slots :
        (req[r].githubInfo.valid /\ FirstSegment(Pathname(r)) \notin Range(GITHUB_HOSTS))
            => /\ ExplicitForm(r).valid
               /\ ExplicitForm(r).fullUrl = req[r].githubInfo.fullUrl
               /\ Proxied(r) =>
                     getCacheStrategy(ExplicitForm(r).path) = req[r].cacheStrategy

====
